---- MODULE Spec2Model ----
(***************************************************************************)
(* Intrusive circular double linked lists of micro-os-plus/utils-lists.    *)
(*                                                                         *)
(* Memory is a map from the address of a links node (the pair previous_,   *)
(* next_) to its two pointers.  The links nodes are the sentinels of the   *)
(* lists (double_list::links_) and the links members embedded in the host  *)
(* objects (child::registry_links_).  Every method is an operator from a   *)
(* memory to an outcome: the memory it leaves and how the call ended       *)
(* ("ok", "assert" for a failed assert(), "ub" for a dereference of a null *)
(* pointer).                                                               *)
(***************************************************************************)
EXTENDS Integers, Sequences, FiniteSets, TLC

\* ------------------------------------------------------------- bounds ----

\* Number of host objects (children) that can be linked.
NumHosts == 3

\* Largest offset (in words) of the links member inside its host object.
MaxOffset == 2

\* ------------------------------------------------------------- layout ----

\* The null pointer.
NULL == 0

\* Two lists: list 1 has L = double_list_links, list 2 has
\* L = static_double_list_links.
Lists == {1, 2}

Hosts == 1 .. NumHosts

\* L::is_statically_allocated of the list's links type.
is_statically_allocated(l) == (l = 2)

\* Address of the sentinel of list l (&links_); a links node is two words.
links_pointer(l) == 2 * l

\* Address of host object h; a host is MaxOffset words followed by room for
\* the two words of the links member.
HostAddr(h) == 6 + (h - 1) * (MaxOffset + 2)

HostAddrs == { HostAddr(h) : h \in Hosts }

VARIABLES
  mem,        \* address of a links node -> [previous, next]
  offset,     \* offset of the links member MP inside the host type T
  intrusive,  \* TRUE: intrusive_list<T, N, MP, L>; FALSE: double_list<T, L>
  elemStatic, \* the links type N of the elements is static_double_list_links
  ndebug,     \* the build defines NDEBUG: assert() expands to nothing
  status,     \* "ok", or how the program ended: "assert", "ub"
  last,       \* the last call made, a record as CallOf makes them
  threads,    \* thread -> the call it is in and the statement it is at
  mutex       \* the callers put every call under one lock

vars ==
  <<mem, offset, intrusive, elemStatic, ndebug, status, last, threads, mutex>>

\* Address of the links member of the host at address host (&(host.*MP)),
\* with the offset off.
MemberAddr(host, off) == host + off

\* The addresses of all links nodes when the member offset is off.
NodesAt(off) ==
  { links_pointer(l) : l \in Lists } \cup { MemberAddr(a, off) : a \in HostAddrs }

Nodes == NodesAt(offset)

Elems == { MemberAddr(a, offset) : a \in HostAddrs }

\* The elements of the sequence s.
Range(s) == { s[i] : i \in 1 .. Len(s) }

Ok(m) == [status |-> "ok", mem |-> m]

Fail(s, m) == [status |-> s, mem |-> m]

\* ------------------------------------------- double_list_links_base ------

\* initialize() that forgets next_.
initialize_previous_only(m, self) ==
  [m EXCEPT ![self].previous = self]

initialize(m, self) ==
  LET m1 == [m EXCEPT ![self].previous = self]
  IN  [m1 EXCEPT ![self].next = self]

next(m, self) == m[self].next

previous(m, self) == m[self].previous

uninitialized(m, self) ==
  m[self].previous = NULL \/ m[self].next = NULL

\* The two assert() of uninitialized() pass.
uninitialized_asserts(m, self) ==
  (m[self].previous = NULL \/ m[self].next = NULL)
    => (m[self].previous = NULL /\ m[self].next = NULL)

\* initialize_once() with the test inverted.
initialize_once_inverted(m, self) ==
  IF uninitialized(m, self) THEN Ok(m) ELSE Ok(initialize(m, self))

\* initialize_once() that initializes whatever the state of the node.
initialize_once_always(m, self) == Ok(initialize(m, self))

initialize_once(m, self) ==
  IF ~ndebug /\ ~uninitialized_asserts(m, self) THEN Fail("assert", m)
  ELSE IF uninitialized(m, self) THEN Ok(initialize(m, self))
  ELSE Ok(m)

\* link_next() that leaves the next_ of the node it inserts as it was.
link_next_keeps_node_next(m, self, node) ==
  IF self = NULL \/ m[self].next = NULL THEN Fail("ub", m)
  ELSE
    LET m1 == [m EXCEPT ![node].previous = self]
        m3 == [m1 EXCEPT ![m1[self].next].previous = node]
        m4 == [m3 EXCEPT ![self].next = node]
    IN  Ok(m4)

\* link_next() that forgets next_->previous_ = node.
link_next_no_back_link(m, self, node) ==
  IF self = NULL \/ m[self].next = NULL THEN Fail("ub", m)
  ELSE
    LET m1 == [m EXCEPT ![node].previous = self]
        m2 == [m1 EXCEPT ![node].next = m1[self].next]
        m4 == [m2 EXCEPT ![self].next = node]
    IN  Ok(m4)

link_next(m, self, node) ==
  IF self = NULL THEN Fail("ub", m)
  ELSE IF m[self].next = NULL
    THEN IF ndebug THEN Fail("ub", m) ELSE Fail("assert", m)
  ELSE IF ~ndebug /\ m[m[self].next].previous = NULL THEN Fail("assert", m)
  ELSE
    LET m1 == [m EXCEPT ![node].previous = self]
        m2 == [m1 EXCEPT ![node].next = m1[self].next]
        m3 == [m2 EXCEPT ![m2[self].next].previous = node]
        m4 == [m3 EXCEPT ![self].next = node]
    IN  Ok(m4)

\* link_previous() that forgets previous_->next_ = node.
link_previous_no_forward_link(m, self, node) ==
  IF self = NULL \/ m[self].next = NULL \/ m[self].previous = NULL
  THEN Fail("ub", m)
  ELSE
    LET m1 == [m EXCEPT ![node].next = self]
        m2 == [m1 EXCEPT ![node].previous = m1[self].previous]
        m4 == [m2 EXCEPT ![self].previous = node]
    IN  Ok(m4)

link_previous(m, self, node) ==
  IF self = NULL THEN Fail("ub", m)
  ELSE IF m[self].next = NULL
    THEN IF ndebug THEN Fail("ub", m) ELSE Fail("assert", m)
  ELSE IF ~ndebug /\ m[m[self].next].previous = NULL THEN Fail("assert", m)
  ELSE IF m[self].previous = NULL THEN Fail("ub", m)
  ELSE
    LET m1 == [m EXCEPT ![node].next = self]
        m2 == [m1 EXCEPT ![node].previous = m1[self].previous]
        m3 == [m2 EXCEPT ![m2[self].previous].next = node]
        m4 == [m3 EXCEPT ![self].previous = node]
    IN  Ok(m4)

\* unlink() that updates the successor only.
unlink_successor_only(m, self) ==
  IF self = NULL \/ m[self].previous = NULL \/ m[self].next = NULL
  THEN Fail("ub", m)
  ELSE
    LET m2 == [m EXCEPT ![m[self].next].previous = m[self].previous]
    IN  Ok(initialize(m2, self))

\* unlink() that does not reset the node it unlinked.
unlink_no_reset(m, self) ==
  IF self = NULL \/ m[self].previous = NULL \/ m[self].next = NULL
  THEN Fail("ub", m)
  ELSE
    LET m1 == [m EXCEPT ![m[self].previous].next = m[self].next]
        m2 == [m1 EXCEPT ![m1[self].next].previous = m1[self].previous]
    IN  Ok(m2)

\* unlink() that resets the predecessor as well.
unlink_resets_predecessor(m, self) ==
  IF self = NULL THEN Fail("ub", m)
  ELSE IF m[self].previous = NULL \/ m[self].next = NULL THEN Fail("ub", m)
  ELSE LET m1 == [m EXCEPT ![m[self].previous].next = m[self].next]
           m2 == [m1 EXCEPT ![m1[self].next].previous = m1[self].previous]
       IN  Ok(initialize(initialize(m2, self), m[self].previous))

unlink(m, self) ==
  IF self = NULL THEN Fail("ub", m)
  ELSE IF m[self].previous = NULL \/ m[self].next = NULL THEN Fail("ub", m)
  ELSE
    LET m1 == [m EXCEPT ![m[self].previous].next = m[self].next]
        m2 == [m1 EXCEPT ![m1[self].next].previous = m1[self].previous]
    IN  Ok(initialize(m2, self))

linked(m, self) ==
  ~(m[self].next = self \/ m[self].previous = self)

\* The two assert() of linked() pass.
linked_asserts(m, self) ==
  (m[self].next = self \/ m[self].previous = self)
    => (m[self].next = self /\ m[self].previous = self)

\* nullify() that forgets previous_.
nullify_next_only(m, self) == [m EXCEPT ![self].next = NULL]

\* static_double_list_links::nullify.
nullify(m, self) ==
  LET m1 == [m EXCEPT ![self].next = NULL]
  IN  [m1 EXCEPT ![self].previous = NULL]

\* ------------------------------------------- links constructors ---------

\* A constructor that leaves the storage of every links node as it is.
links_construct_leaves_storage(m, self, static) == m

\* static_double_list_links::static_double_list_links leaves the storage as
\* it is; double_list_links::double_list_links calls initialize().
links_construct(m, self, static) ==
  IF static THEN m ELSE initialize(m, self)

\* A destructor with assert (!linked ()) in it.
links_destroy_asserts_unlinked(m, self, static) ==
  IF ~ndebug /\ linked(m, self) THEN Fail("assert", m) ELSE Ok(m)

\* ~static_double_list_links and ~double_list_links: both bodies are empty.
links_destroy(m, self, static) == Ok(m)

\* --------------------------------------------------- double_list<T, L> ---

\* clear() that leaves an initialized sentinel as it is.
clear_if_uninitialized(m, l) ==
  IF uninitialized(m, links_pointer(l)) THEN initialize(m, links_pointer(l))
  ELSE m

\* clear() that resets the first node of the list as well.
clear_resets_head(m, l) ==
  IF next(m, links_pointer(l)) \in DOMAIN m
  THEN initialize(initialize(m, next(m, links_pointer(l))), links_pointer(l))
  ELSE initialize(m, links_pointer(l))

\* clear() that sets the pointers of the sentinel to null.
clear_nullifies(m, l) == nullify(m, links_pointer(l))

clear(m, l) == initialize(m, links_pointer(l))

\* A constructor that clears the links of every list, static or not.
double_list_construct_always_clears(m, l) ==
  clear(links_construct(m, links_pointer(l), is_statically_allocated(l)), l)

double_list_construct(m, l) ==
  LET m1 == links_construct(m, links_pointer(l), is_statically_allocated(l))
  IN  IF is_statically_allocated(l) THEN m1 ELSE clear(m1, l)

double_list_uninitialized(m, l) ==
  IF is_statically_allocated(l) THEN uninitialized(m, links_pointer(l))
  ELSE FALSE

double_list_initialize_once(m, l) ==
  IF is_statically_allocated(l) THEN initialize_once(m, links_pointer(l))
  ELSE Ok(m)

\* empty() that compares the two ends of the list.
empty_compares_ends(m, l) ==
  next(m, links_pointer(l)) = previous(m, links_pointer(l))

empty(m, l) == ~linked(m, links_pointer(l))

\* A head() that returns the other end of the list.
head_returns_previous(m, l) == previous(m, links_pointer(l))

head(m, l) == next(m, links_pointer(l))

tail(m, l) == previous(m, links_pointer(l))

\* The assert (!links_.uninitialized ()) of link_tail, link_head and begin
\* fails (a failed assert inside uninitialized() aborts as well).
links_assert_fails(m, l) ==
  /\ is_statically_allocated(l)
  /\ ~ndebug
  /\ uninitialized(m, links_pointer(l))

\* link_tail() that clears a still uninitialized list instead of asserting.
double_list_link_tail_bootstraps(m, l, node) ==
  IF is_statically_allocated(l) /\ uninitialized(m, links_pointer(l))
  THEN link_next(clear(m, l), tail(clear(m, l), l), node)
  ELSE link_next(m, tail(m, l), node)

double_list_link_tail(m, l, node) ==
  IF links_assert_fails(m, l) THEN Fail("assert", m)
  ELSE link_next(m, tail(m, l), node)

double_list_link_head(m, l, node) ==
  IF links_assert_fails(m, l) THEN Fail("assert", m)
  ELSE link_previous(m, head(m, l), node)

\* begin() and end() return the node the iterator wraps.
double_list_begin(m, l) ==
  IF links_assert_fails(m, l) THEN Fail("assert", m) ELSE Ok(m)

end(l) == links_pointer(l)

\* ------------------------------------------ intrusive_list<T, N, MP, L> --

intrusive_list_link_tail(m, l, host) ==
  link_next(m, tail(m, l), MemberAddr(host, offset))

intrusive_list_link_head(m, l, host) ==
  link_previous(m, head(m, l), MemberAddr(host, offset))

intrusive_list_begin(m, l) == Ok(m)

\* get_pointer() that adds the offset instead of subtracting it.
get_pointer_adds_offset(node) == node + offset

\* intrusive_list::get_pointer: the host object of a links node.
get_pointer(node) == node - offset

\* unlink_tail() with assert (!empty ()) in front.
unlink_tail_asserts_not_empty(m, l) ==
  IF ~ndebug /\ empty(m, l) THEN Fail("assert", m)
  ELSE unlink(m, previous(m, links_pointer(l)))

\* unlink_head() with assert (!empty ()) in front.
unlink_head_asserts_not_empty(m, l) ==
  IF ~ndebug /\ empty(m, l) THEN Fail("assert", m)
  ELSE unlink(m, next(m, links_pointer(l)))

\* unlink_head() that unlinks the last element instead of the first.
unlink_head_takes_tail(m, l) == unlink(m, previous(m, links_pointer(l)))

\* unlink_head() and unlink_tail() return get_pointer (it) of the node they
\* unlinked.
unlink_head(m, l) == unlink(m, next(m, links_pointer(l)))

unlink_tail(m, l) == unlink(m, previous(m, links_pointer(l)))

\* link_tail, link_head and begin of the list class in use.
link_tail(m, l, host) ==
  IF intrusive THEN intrusive_list_link_tail(m, l, host)
  ELSE double_list_link_tail(m, l, host)

link_head(m, l, host) ==
  IF intrusive THEN intrusive_list_link_head(m, l, host)
  ELSE double_list_link_head(m, l, host)

begin(m, l) ==
  IF intrusive THEN intrusive_list_begin(m, l) ELSE double_list_begin(m, l)

\* ------------------------------------------------------------ iteration --

\* An operator++ that does not move the iterator.
increment_stays(m, it) == it

\* operator++ of both iterators: node_ = node_->next ().
increment(m, it) == next(m, it)

\* An operator-- that moves forwards.
decrement_follows_next(m, it) == next(m, it)

\* intrusive_list_iterator::operator-- : node_ = node_->previous ().
decrement(m, it) == previous(m, it)

\* get_pointer() that returns the links node itself.
iterator_get_pointer_no_offset(node) == node

\* intrusive_list_iterator::get_pointer: the host object of node_.
iterator_get_pointer(node) == node - offset

\* operator* of the iterator: the host object for an intrusive list, the
\* node itself for a double_list.
dereference(it) == IF intrusive THEN iterator_get_pointer(it) ELSE it

\* for (it = begin (); it != end (); ++it): the nodes visited.  The walk
\* is cut (ending with NULL) when it leaves the nodes or outlasts them all.
RECURSIVE Walk(_, _, _, _)
Walk(m, it, e, fuel) ==
  IF it = e THEN <<>>
  ELSE IF fuel = 0 \/ it \notin DOMAIN m THEN <<NULL>>
  ELSE <<it>> \o Walk(m, increment(m, it), e, fuel - 1)

\* for (it = end (); --it != end (); ): the nodes visited.
RECURSIVE WalkBack(_, _, _, _)
WalkBack(m, it, e, fuel) ==
  IF it = e THEN <<>>
  ELSE IF fuel = 0 \/ it \notin DOMAIN m THEN <<NULL>>
  ELSE <<it>> \o WalkBack(m, decrement(m, it), e, fuel - 1)

\* The objects a range-based for over list l yields, in order.
Iterate(m, l) ==
  LET w == Walk(m, head(m, l), end(l), Cardinality(DOMAIN m))
  IN  [i \in 1 .. Len(w) |-> IF w[i] = NULL THEN NULL ELSE dereference(w[i])]

\* -------------------------------------------------------- construction ---

\* What the storage of an object with a constructor that sets the pointers
\* may hold before the constructor runs.
Garbage == [previous : {NULL, links_pointer(1)}, next : {NULL, links_pointer(2)}]

Zero == [previous |-> NULL, next |-> NULL]

\* The storage before any constructor: statically allocated links are in
\* the zeroed BSS, the others hold g.
Raw(off, static, g) ==
  [a \in NodesAt(off) |->
     IF \/ \E l \in Lists : a = links_pointer(l) /\ is_statically_allocated(l)
        \/ a \notin { links_pointer(l) : l \in Lists } /\ static
     THEN Zero ELSE g]

RECURSIVE ConstructElems(_, _, _)
ConstructElems(m, S, static) ==
  IF S = {} THEN m
  ELSE LET a == CHOOSE x \in S : TRUE
       IN  ConstructElems(links_construct(m, a, static), S \ {a}, static)

RECURSIVE ConstructLists(_, _)
ConstructLists(m, S) ==
  IF S = {} THEN m
  ELSE LET l == CHOOSE x \in S : TRUE
       IN  ConstructLists(double_list_construct(m, l), S \ {l})

\* The record of a call: the method, the list and the object it was given,
\* what it returned, whether the node was linked when unlink() was called,
\* whether a link call links the node that the call before it unlinked
\* from a list, and the pointers the node had before unlink() or nullify().
CallOf(op, l, a) ==
  [op |-> op, list |-> l, arg |-> a, ret |-> NULL,
   wasLinked |-> FALSE, relinked |-> FALSE, before |-> Zero]

NoCall == CallOf("construct", 0, NULL)

Threads == {1, 2}

\* A thread: the call it makes (op on list and host), the statement it is
\* at (pc), and the pointer tail () returned to it (self).
ThreadOf(op, l, a) == [op |-> op, list |-> l, host |-> a, pc |-> 0, self |-> NULL]

\* A thread that makes no call.
Idle == ThreadOf("none", 0, NULL)

Init ==
  /\ intrusive \in BOOLEAN
  /\ offset \in (IF intrusive THEN 0 .. MaxOffset ELSE {0})
  /\ elemStatic \in BOOLEAN
  /\ ndebug \in BOOLEAN
  /\ \E g \in Garbage :
       mem = ConstructLists(
               ConstructElems(Raw(offset, elemStatic, g),
                              { MemberAddr(a, offset) : a \in HostAddrs },
                              elemStatic),
               Lists)
  /\ status = "ok"
  /\ last = NoCall
  /\ threads = [t \in Threads |-> Idle]
  /\ mutex = FALSE

\* ------------------------------------------------------------- actions ---

\* The caller's side of link_tail and link_head: the node is in no list.
Unlinked(m, node) == uninitialized(m, node) \/ ~linked(m, node)

\* A call c that ended with outcome r.
Call(r, c) ==
  /\ status = "ok"
  /\ mem' = r.mem
  /\ status' = r.status
  /\ last' = IF r.status = "ok" THEN c ELSE [c EXCEPT !.ret = NULL]
  /\ UNCHANGED <<offset, intrusive, elemStatic, ndebug, threads, mutex>>

\* The preceding call unlinked the links of host a from a list.
JustUnlinked(a) ==
  last.op = "unlink" /\ last.arg = a /\ last.wasLinked

ListInitializeOnce(l) ==
  Call(double_list_initialize_once(mem, l), CallOf("initialize_once", l, NULL))

\* clear() with the caller's obligation: no member is linked in.
Clear(l) ==
  /\ double_list_uninitialized(mem, l) \/ empty(mem, l)
  /\ Call(Ok(clear(mem, l)), CallOf("clear", l, NULL))

LinkTail(l, h) ==
  /\ Unlinked(mem, MemberAddr(HostAddr(h), offset))
  /\ Call(link_tail(mem, l, HostAddr(h)),
          [CallOf("link_tail", l, HostAddr(h))
             EXCEPT !.relinked = JustUnlinked(HostAddr(h))])

LinkHead(l, h) ==
  /\ Unlinked(mem, MemberAddr(HostAddr(h), offset))
  /\ Call(link_head(mem, l, HostAddr(h)),
          [CallOf("link_head", l, HostAddr(h))
             EXCEPT !.relinked = JustUnlinked(HostAddr(h))])

\* child::unlink: registry_links_.unlink ().
Unlink(h) ==
  Call(unlink(mem, MemberAddr(HostAddr(h), offset)),
       [CallOf("unlink", 0, HostAddr(h))
          EXCEPT !.wasLinked = linked(mem, MemberAddr(HostAddr(h), offset)),
                 !.before = mem[MemberAddr(HostAddr(h), offset)]])

UnlinkHead(l) ==
  /\ intrusive
  /\ Call(unlink_head(mem, l),
          [CallOf("unlink_head", l, NULL)
             EXCEPT !.ret = get_pointer(next(mem, links_pointer(l)))])

UnlinkTail(l) ==
  /\ intrusive
  /\ Call(unlink_tail(mem, l),
          [CallOf("unlink_tail", l, NULL)
             EXCEPT !.ret = get_pointer(previous(mem, links_pointer(l)))])

Begin(l) ==
  Call(begin(mem, l), [CallOf("begin", l, NULL) EXCEPT !.ret = head(mem, l)])

\* one.initialize_once () on the links of an element.
ElemInitializeOnce(h) ==
  Call(initialize_once(mem, MemberAddr(HostAddr(h), offset)),
       CallOf("links_initialize_once", 0, HostAddr(h)))

\* links.initialize () on the links of an element that is in no list.
Initialize(h) ==
  /\ Unlinked(mem, MemberAddr(HostAddr(h), offset))
  /\ Call(Ok(initialize(mem, MemberAddr(HostAddr(h), offset))),
          CallOf("initialize", 0, HostAddr(h)))

\* p->nullify () on static links that are in no list.
Nullify(h) ==
  /\ elemStatic
  /\ Unlinked(mem, MemberAddr(HostAddr(h), offset))
  /\ Call(Ok(nullify(mem, MemberAddr(HostAddr(h), offset))),
          [CallOf("nullify", 0, HostAddr(h))
             EXCEPT !.before = mem[MemberAddr(HostAddr(h), offset)]])

Next ==
  \/ \E l \in Lists : ListInitializeOnce(l)
  \/ \E l \in Lists : Clear(l)
  \/ \E l \in Lists, h \in Hosts : LinkTail(l, h)
  \/ \E l \in Lists, h \in Hosts : LinkHead(l, h)
  \/ \E h \in Hosts : Unlink(h)
  \/ \E l \in Lists : UnlinkHead(l)
  \/ \E l \in Lists : UnlinkTail(l)
  \/ \E l \in Lists : Begin(l)
  \/ \E h \in Hosts : ElemInitializeOnce(h)
  \/ \E h \in Hosts : Initialize(h)
  \/ \E h \in Hosts : Nullify(h)

Spec == Init /\ [][Next]_vars

\* ------------------------------------- calls outside the obligations -----

\* A client that keeps to the obligations up to one call that does not: a
\* clear() of a list with members, a link of a node that is in a list, an
\* initialize() of such a node.  The calls that follow on a memory that is
\* no longer consistent are left out.

\* Every initialized node is the previous of its next and the next of its
\* previous: what holds as long as the caller has kept to the obligations.
Circular(m) ==
  \A x \in DOMAIN m :
    ~uninitialized(m, x) =>
      /\ m[x].next \in DOMAIN m /\ m[x].previous \in DOMAIN m
      /\ m[m[x].next].previous = x
      /\ m[m[x].previous].next = x

\* clear() on a list that has members.
ClearNonEmpty(l) ==
  /\ ~double_list_uninitialized(mem, l) /\ ~empty(mem, l)
  /\ Call(Ok(clear(mem, l)), CallOf("clear", l, NULL))

\* link_tail() of a node that is a member of a list.
LinkTailLinked(l, h) ==
  /\ ~Unlinked(mem, MemberAddr(HostAddr(h), offset))
  /\ Call(link_tail(mem, l, HostAddr(h)), CallOf("link_tail", l, HostAddr(h)))

\* link_head() of a node that is a member of a list.
LinkHeadLinked(l, h) ==
  /\ ~Unlinked(mem, MemberAddr(HostAddr(h), offset))
  /\ Call(link_head(mem, l, HostAddr(h)), CallOf("link_head", l, HostAddr(h)))

\* links.initialize () on the links of an element that is in a list.
InitializeLinked(h) ==
  /\ ~Unlinked(mem, MemberAddr(HostAddr(h), offset))
  /\ Call(Ok(initialize(mem, MemberAddr(HostAddr(h), offset))),
          CallOf("initialize", 0, HostAddr(h)))

\* The destructor of the links of an element, in a list or not.
Destroy(h) ==
  Call(links_destroy(mem, MemberAddr(HostAddr(h), offset), elemStatic),
       [CallOf("destroy", 0, HostAddr(h))
          EXCEPT !.wasLinked = linked(mem, MemberAddr(HostAddr(h), offset)),
                 !.before = mem[MemberAddr(HostAddr(h), offset)]])

\* The memory is consistent and no object has been destroyed: the calls
\* that follow the end of a lifetime are left out as well.
Sound == Circular(mem) /\ last.op # "destroy"

\* The nodes that were the members of list l, in their order, when the
\* list has just been cleared with them in it: the chain that starts at the
\* element that still has the sentinel as previous.
FormerMembers(m, l) ==
  LET heads == { x \in Elems : /\ ~uninitialized(m, x)
                               /\ linked(m, x)
                               /\ m[x].previous = links_pointer(l) }
  IN  IF heads = {} THEN <<>>
      ELSE Walk(m, CHOOSE x \in heads : TRUE, links_pointer(l),
                Cardinality(DOMAIN m))

\* The call before was a clear() of a list that had members.
AfterClear == last.op = "clear" /\ ~Circular(mem)

\* unlink() of a former member of the list that has just been cleared.
UnlinkAfterClear(h) ==
  /\ AfterClear
  /\ MemberAddr(HostAddr(h), offset) \in Range(FormerMembers(mem, last.list))
  /\ Unlink(h)

NextMisuse ==
  \/ \E l \in Lists : Sound /\ ListInitializeOnce(l)
  \/ \E l \in Lists : Sound /\ Clear(l)
  \/ \E l \in Lists, h \in Hosts : Sound /\ LinkTail(l, h)
  \/ \E l \in Lists, h \in Hosts : Sound /\ LinkHead(l, h)
  \/ \E h \in Hosts : Sound /\ Unlink(h)
  \/ \E l \in Lists : Sound /\ UnlinkHead(l)
  \/ \E l \in Lists : Sound /\ UnlinkTail(l)
  \/ \E l \in Lists : Sound /\ Begin(l)
  \/ \E h \in Hosts : Sound /\ ElemInitializeOnce(h)
  \/ \E h \in Hosts : Sound /\ Initialize(h)
  \/ \E h \in Hosts : Sound /\ Nullify(h)
  \/ \E l \in Lists : Sound /\ ClearNonEmpty(l)
  \/ \E l \in Lists, h \in Hosts : Sound /\ LinkTailLinked(l, h)
  \/ \E l \in Lists, h \in Hosts : Sound /\ LinkHeadLinked(l, h)
  \/ \E h \in Hosts : Sound /\ InitializeLinked(h)
  \/ \E h \in Hosts : Sound /\ Destroy(h)
  \/ \E h \in Hosts : UnlinkAfterClear(h)

SpecMisuse == Init /\ [][NextMisuse]_vars

\* ---------------------------------------------------------- two threads --

\* What one statement of a thread leaves: the memory, the thread, and how
\* the statement ended.
Stepped(m, th, st) == [mem |-> m, th |-> th, status |-> st]

\* The statement at th.pc of link_tail (node) that skips the third store of
\* link_next.
link_tail_step_no_back_link(m, th) ==
  LET node == MemberAddr(th.host, offset)
      nxt == [th EXCEPT !.pc = th.pc + 1]
  IN  CASE th.pc = 0 ->
             Stepped(m, [nxt EXCEPT !.self = tail(m, th.list)], "ok")
        [] th.pc = 1 ->
             Stepped([m EXCEPT ![node].previous = th.self], nxt, "ok")
        [] th.pc = 2 ->
             Stepped([m EXCEPT ![node].next = m[th.self].next], nxt, "ok")
        [] th.pc = 3 -> Stepped(m, nxt, "ok")
        [] OTHER ->
             Stepped([m EXCEPT ![th.self].next = node], nxt, "ok")

\* The statement at th.pc of link_tail (node): tail (), then the asserts
\* and the four stores of link_next, one statement at a time.
link_tail_step(m, th) ==
  LET node == MemberAddr(th.host, offset)
      nxt == [th EXCEPT !.pc = th.pc + 1]
  IN  CASE th.pc = 0 ->
             IF ~intrusive /\ links_assert_fails(m, th.list)
             THEN Stepped(m, th, "assert")
             ELSE Stepped(m, [nxt EXCEPT !.self = tail(m, th.list)], "ok")
        [] th.pc = 1 ->
             IF th.self = NULL THEN Stepped(m, th, "ub")
             ELSE IF m[th.self].next = NULL
               THEN Stepped(m, th, IF ndebug THEN "ub" ELSE "assert")
             ELSE IF ~ndebug /\ m[m[th.self].next].previous = NULL
               THEN Stepped(m, th, "assert")
             ELSE Stepped([m EXCEPT ![node].previous = th.self], nxt, "ok")
        [] th.pc = 2 ->
             Stepped([m EXCEPT ![node].next = m[th.self].next], nxt, "ok")
        [] th.pc = 3 ->
             IF m[th.self].next = NULL THEN Stepped(m, th, "ub")
             ELSE Stepped([m EXCEPT ![m[th.self].next].previous = node],
                          nxt, "ok")
        [] OTHER ->
             Stepped([m EXCEPT ![th.self].next = node], nxt, "ok")

\* The statement at th.pc of unlink (): the two stores into the
\* neighbours, then the two stores of initialize ().
unlink_step(m, th) ==
  LET n == MemberAddr(th.host, offset)
      nxt == [th EXCEPT !.pc = th.pc + 1]
  IN  CASE th.pc = 0 ->
             IF m[n].previous = NULL THEN Stepped(m, th, "ub")
             ELSE Stepped([m EXCEPT ![m[n].previous].next = m[n].next],
                          nxt, "ok")
        [] th.pc = 1 ->
             IF m[n].next = NULL THEN Stepped(m, th, "ub")
             ELSE Stepped([m EXCEPT ![m[n].next].previous = m[n].previous],
                          nxt, "ok")
        [] th.pc = 2 -> Stepped([m EXCEPT ![n].previous = n], nxt, "ok")
        [] OTHER -> Stepped([m EXCEPT ![n].next = n], nxt, "ok")

\* The number of statements of a call.
Statements(op) == IF op = "link_tail" THEN 5 ELSE IF op = "unlink" THEN 4 ELSE 0

Done(th) == th.pc = Statements(th.op)

\* The thread is between the first and the last statement of its call.
Inside(th) == th.pc > 0 /\ ~Done(th)

\* With the lock, a thread runs only while no other thread is inside a
\* call.
MayRun(t) ==
  /\ status = "ok"
  /\ ~Done(threads[t])
  /\ mutex => \A u \in Threads \ {t} : ~Inside(threads[u])

\* The memory, the thread and the status after a statement.
Run(t, r) ==
  /\ mem' = r.mem
  /\ threads' = [threads EXCEPT ![t] = r.th]
  /\ status' = r.status
  /\ UNCHANGED <<offset, intrusive, elemStatic, ndebug, last, mutex>>

LinkTailStep(t) ==
  /\ MayRun(t)
  /\ threads[t].op = "link_tail"
  /\ Run(t, link_tail_step(mem, threads[t]))

UnlinkStep(t) ==
  /\ MayRun(t)
  /\ threads[t].op = "unlink"
  /\ Run(t, unlink_step(mem, threads[t]))

\* List 1 holds Sally.  Thread 1 calls link_tail (marry); thread 2 calls
\* link_tail (bob) or sally.unlink (); the callers use a lock or none.
InitRace ==
  /\ intrusive \in BOOLEAN
  /\ offset \in (IF intrusive THEN 0 .. MaxOffset ELSE {0})
  /\ elemStatic \in BOOLEAN
  /\ ndebug \in BOOLEAN
  /\ \E g \in Garbage :
       mem = link_tail(
               ConstructLists(
                 ConstructElems(Raw(offset, elemStatic, g),
                                { MemberAddr(a, offset) : a \in HostAddrs },
                                elemStatic),
                 Lists),
               1, HostAddr(3)).mem
  /\ status = "ok"
  /\ last = NoCall
  /\ mutex \in BOOLEAN
  /\ \E second \in {ThreadOf("link_tail", 1, HostAddr(2)),
                     ThreadOf("unlink", 0, HostAddr(3))} :
       threads = [t \in Threads |->
                    IF t = 1 THEN ThreadOf("link_tail", 1, HostAddr(1))
                    ELSE second]

NextRace ==
  \/ \E t \in Threads : LinkTailStep(t)
  \/ \E t \in Threads : UnlinkStep(t)

SpecRace == InitRace /\ [][NextRace]_vars

\* -------------------------------------------------------------- claims ---

\* s without x.
SeqRemove(s, x) == SelectSeq(s, LAMBDA y : y # x)

\* The sequences over S in which no element occurs twice.
DistinctSeqs(S) ==
  { s \in UNION { [1 .. k -> S] : k \in 0 .. Cardinality(S) } :
      \A i, j \in 1 .. Len(s) : i # j => s[i] # s[j] }

\* The links member of the host at address a.
Member(a) == MemberAddr(a, offset)

\* The hosts whose links are in no list.
UnlinkedHosts == { a \in HostAddrs : Unlinked(mem, Member(a)) }

\* link_tail of the hosts of s, in order.
RECURSIVE LinkTailAll(_, _, _)
LinkTailAll(m, l, s) ==
  IF s = <<>> THEN Ok(m)
  ELSE LET r == link_tail(m, l, Head(s))
       IN  IF r.status # "ok" THEN r ELSE LinkTailAll(r.mem, l, Tail(s))

\* C1: on a list that is empty and initialized, link_tail of k distinct
\* unlinked nodes n1..nk, in that order, leaves head() = n1, tail() = nk and
\* an iteration from begin() to end() that yields exactly n1..nk (the host
\* objects, for the intrusive list).
C1_LinkTailOrder ==
  status = "ok" =>
    \A l \in Lists :
      (~double_list_uninitialized(mem, l) /\ empty(mem, l)) =>
        \A s \in DistinctSeqs(UnlinkedHosts) \ {<<>>} :
          LET r == LinkTailAll(mem, l, s)
          IN  /\ r.status = "ok"
              /\ head(r.mem, l) = Member(s[1])
              /\ tail(r.mem, l) = Member(s[Len(s)])
              /\ Iterate(r.mem, l) = s

\* All the hosts are in list l, in the order of their addresses, and the
\* last of them was put there by link_tail.
C1_Witness ==
  /\ status = "ok"
  /\ last.op = "link_tail"
  /\ last.arg = HostAddr(NumHosts)
  /\ Iterate(mem, last.list) = [i \in 1 .. NumHosts |-> HostAddr(i)]
  /\ head(mem, last.list) = Member(HostAddr(1))
  /\ tail(mem, last.list) = Member(HostAddr(NumHosts))

\* C2: unlink() on a member of a list removes exactly that member: every
\* list iterates as before without it, and its former predecessor and
\* successor point to each other.
C2_UnlinkRemoves ==
  [][ \A a \in HostAddrs :
        ( /\ last'.op = "unlink" /\ last'.arg = a
          /\ \E l \in Lists : a \in Range(Iterate(mem, l)) )
        => LET pred == previous(mem, Member(a))
               succ == next(mem, Member(a))
           IN  /\ status' = "ok"
               /\ next(mem', pred) = succ
               /\ previous(mem', succ) = pred
               /\ \A l \in Lists :
                    Iterate(mem', l) = SeqRemove(Iterate(mem, l), a) ]_vars

\* The middle one of three members was unlinked: [a, b, c] became [a, c].
C2_Witness ==
  /\ status = "ok"
  /\ last.op = "unlink" /\ last.wasLinked
  /\ last.arg = HostAddr(2)
  /\ \E l \in Lists :
       /\ Iterate(mem, l) = <<HostAddr(1), HostAddr(3)>>
       /\ next(mem, Member(HostAddr(1))) = Member(HostAddr(3))
       /\ previous(mem, Member(HostAddr(3))) = Member(HostAddr(1))

\* C3: right after n.unlink() on an initialized node, n.linked() is false
\* and n.next() = n.previous() = n; a second n.unlink() ends normally and
\* changes no pointer of any node.
C3_UnlinkIdempotent ==
  \A a \in HostAddrs :
    (last.op = "unlink" /\ last.arg = a /\ status = "ok") =>
      /\ ~linked(mem, Member(a))
      /\ next(mem, Member(a)) = Member(a)
      /\ previous(mem, Member(a)) = Member(a)
      /\ unlink(mem, Member(a)) = Ok(mem)

\* A node that was linked has been unlinked.
C3_Witness ==
  /\ status = "ok"
  /\ last.op = "unlink" /\ last.wasLinked
  /\ ~linked(mem, Member(last.arg))

\* C4: a freshly constructed list with links of type double_list_links is
\* empty, is not uninitialized, and has begin() == end().
C4_EagerListFresh ==
  last = NoCall =>
    \A l \in Lists :
      ~is_statically_allocated(l) =>
        /\ empty(mem, l)
        /\ ~double_list_uninitialized(mem, l)
        /\ ~uninitialized(mem, links_pointer(l))
        /\ begin(mem, l).status = "ok"
        /\ head(mem, l) = end(l)

\* Nothing has been called yet and list 1, of double_list_links, is empty.
C4_Witness ==
  /\ last = NoCall
  /\ ~is_statically_allocated(1)
  /\ empty(mem, 1)
  /\ head(mem, 1) = end(1)

\* C5: a list with links of type static_double_list_links in zeroed storage
\* is uninitialized before any call; initialize_once() on the uninitialized
\* list leaves it not uninitialized, empty, and with begin() == end().
C5_StaticListLazy ==
  /\ \A l \in Lists :
       (is_statically_allocated(l) /\ last = NoCall)
         => double_list_uninitialized(mem, l)
  /\ [][ \A l \in Lists :
           ( /\ is_statically_allocated(l)
             /\ double_list_uninitialized(mem, l)
             /\ last'.op = "initialize_once" /\ last'.list = l )
           => /\ status' = "ok"
              /\ ~double_list_uninitialized(mem', l)
              /\ empty(mem', l)
              /\ begin(mem', l).status = "ok"
              /\ head(mem', l) = end(l) ]_vars

\* initialize_once() was called on the static list, which is now empty and
\* no longer uninitialized.
C5_Witness ==
  /\ status = "ok"
  /\ last.op = "initialize_once"
  /\ is_statically_allocated(last.list)
  /\ ~double_list_uninitialized(mem, last.list)
  /\ empty(mem, last.list)

\* The calls that link a node into a list.
LinkOps == {"link_tail", "link_head"}

C7_RoundTrip ==
  [][ \A l \in Lists, a \in HostAddrs :
        ( /\ last'.relinked
          /\ last'.list = l /\ last'.arg = a
          /\ ~double_list_uninitialized(mem, l) )
        => /\ status' = "ok"
           /\ last'.op = "link_tail" =>
                Iterate(mem', l) = Append(Iterate(mem, l), a)
           /\ last'.op = "link_head" =>
                Iterate(mem', l) = <<a>> \o Iterate(mem, l)
           /\ \A k \in Lists \ {l} : Iterate(mem', k) = Iterate(mem, k)
           /\ Circular(mem') ]_vars

\* A node unlinked from a list by the call before was linked again, into a
\* list that holds another member.
C7_Witness ==
  /\ status = "ok"
  /\ last.relinked
  /\ last.arg \in Range(Iterate(mem, last.list))
  /\ Len(Iterate(mem, last.list)) >= 2

\* C8: link_head(n) of an unlinked node on an initialized list iterating as
\* m1..mk (k >= 0) leaves it iterating as n, m1..mk, with n the head() and,
\* when k >= 1, the tail() it had.
C8_LinkHeadPrepends ==
  [][ \A l \in Lists, a \in HostAddrs :
        ( /\ last'.op = "link_head"
          /\ last'.list = l /\ last'.arg = a
          /\ ~double_list_uninitialized(mem, l) )
        => /\ status' = "ok"
           /\ Iterate(mem', l) = <<a>> \o Iterate(mem, l)
           /\ head(mem', l) = Member(a)
           /\ Iterate(mem, l) # <<>> => tail(mem', l) = tail(mem, l) ]_vars

\* The children of the tests.
Marry == HostAddr(1)

Bob == HostAddr(2)

Sally == HostAddr(3)

\* link_head put Marry before Sally.
C8_Witness ==
  /\ status = "ok"
  /\ last.op = "link_head" /\ last.arg = Marry
  /\ Iterate(mem, last.list) = <<Marry, Sally>>
  /\ tail(mem, last.list) = Member(Sally)

\* C9: an intrusive list into which Marry, Bob and Sally are linked with
\* link_tail, in that order, iterates as the host objects Marry, Bob, Sally;
\* after unlink() on the links of Bob it iterates as Marry, Sally.  What an
\* iteration yields is a host object, never the sentinel and never the
\* links member inside the host.
C9_SampleScenario ==
  (status = "ok" /\ intrusive) =>
    \A l \in Lists :
      ~double_list_uninitialized(mem, l) =>
        /\ \A x \in Range(Iterate(mem, l)) :
             /\ x \in HostAddrs
             /\ offset > 0 => x \notin Nodes
        /\ (empty(mem, l) /\ {Marry, Bob, Sally} \subseteq UnlinkedHosts) =>
             LET r1 == LinkTailAll(mem, l, <<Marry, Bob, Sally>>)
                 r2 == unlink(r1.mem, Member(Bob))
             IN  /\ r1.status = "ok"
                 /\ Iterate(r1.mem, l) = <<Marry, Bob, Sally>>
                 /\ r2.status = "ok"
                 /\ Iterate(r2.mem, l) = <<Marry, Sally>>

\* The registry of the sample: Bob was unlinked from Marry, Bob, Sally.
C9_Witness ==
  /\ status = "ok" /\ intrusive /\ offset > 0 /\ ~elemStatic
  /\ last.op = "unlink" /\ last.arg = Bob /\ last.wasLinked
  /\ Iterate(mem, 1) = <<Marry, Sally>>

\* C10: the address of the links member that link_tail and link_head link
\* is host + offset, and get_pointer of that address (the iterator's and the
\* list's, the latter being what unlink_head and unlink_tail return) is the
\* address of the host again, for every host and every offset.
C10_AddressRoundTrip ==
  (status = "ok" /\ intrusive) =>
    /\ \A a \in HostAddrs :
         /\ get_pointer(MemberAddr(a, offset)) = a
         /\ iterator_get_pointer(MemberAddr(a, offset)) = a
    /\ last.op = "link_tail" =>
         /\ tail(mem, last.list) = last.arg + offset
         /\ dereference(tail(mem, last.list)) = last.arg
    /\ last.op = "link_head" =>
         /\ head(mem, last.list) = last.arg + offset
         /\ dereference(head(mem, last.list)) = last.arg
    /\ ( /\ last.op \in {"unlink_head", "unlink_tail"}
         /\ last.ret # get_pointer(links_pointer(last.list)) )
       => /\ last.ret \in HostAddrs
          /\ ~linked(mem, MemberAddr(last.ret, offset))

\* unlink_head returned a host whose links member is not its first field.
C10_Witness ==
  /\ status = "ok" /\ intrusive /\ offset > 0
  /\ last.op = "unlink_head"
  /\ last.ret \in HostAddrs

\* The calls that take a member out of a list.
UnlinkOps == {"unlink", "unlink_head", "unlink_tail"}

\* C11: on an initialized intrusive list that iterates as h1..hk, k >= 1,
\* unlink_head() returns h1 and leaves h2..hk, unlink_tail() returns hk and
\* leaves h1..hk-1; the links member of the host returned is not linked
\* afterwards.
C11_UnlinkEnds ==
  [][ \A l \in Lists :
        ( /\ intrusive
          /\ ~double_list_uninitialized(mem, l) /\ ~empty(mem, l)
          /\ last'.list = l
          /\ last'.op \in {"unlink_head", "unlink_tail"} )
        => LET s == Iterate(mem, l)
           IN  /\ status' = "ok"
               /\ ~linked(mem', Member(last'.ret))
               /\ last'.op = "unlink_head" =>
                    /\ last'.ret = s[1]
                    /\ Iterate(mem', l) = Tail(s)
               /\ last'.op = "unlink_tail" =>
                    /\ last'.ret = s[Len(s)]
                    /\ Iterate(mem', l) = SubSeq(s, 1, Len(s) - 1) ]_vars

\* unlink_head() returned Marry and left Bob, Sally in the list.
C11_Witness ==
  /\ status = "ok" /\ intrusive
  /\ last.op = "unlink_head" /\ last.ret = Marry
  /\ Iterate(mem, last.list) = <<Bob, Sally>>
  /\ ~linked(mem, Member(Marry))

C13_UninitializedIsEmpty ==
  \A l \in Lists :
    (is_statically_allocated(l) /\ double_list_uninitialized(mem, l))
      => empty(mem, l)

\* C14: clear() ends normally on a list in any state (uninitialized, empty
\* or with members) and leaves it empty, not uninitialized and with
\* begin() == end(); on a list that is already empty it changes no pointer.
C14_ClearUnconditional ==
  [][ \A l \in Lists :
        (last'.op = "clear" /\ last'.list = l) =>
          /\ status' = "ok"
          /\ empty(mem', l)
          /\ ~double_list_uninitialized(mem', l)
          /\ ~uninitialized(mem', links_pointer(l))
          /\ begin(mem', l).status = "ok"
          /\ head(mem', l) = end(l)
          /\ (~uninitialized(mem, links_pointer(l)) /\ empty(mem, l))
               => mem' = mem ]_vars

\* clear() was called on a list that had a member: a host still points to
\* the sentinel of the list, which is empty.
C14_Witness ==
  /\ status = "ok"
  /\ last.op = "clear"
  /\ empty(mem, last.list)
  /\ \E a \in HostAddrs :
       previous(mem, Member(a)) = links_pointer(last.list)

\* C15: clear() on a list with members writes no pointer of any node but
\* the sentinel: every former member still is linked(), and the iteration
\* from begin() to end() reaches none of them.
C15_ClearOrphans ==
  [][ \A l \in Lists :
        ( /\ last'.op = "clear" /\ last'.list = l
          /\ ~double_list_uninitialized(mem, l) /\ ~empty(mem, l) )
        => /\ \A x \in Nodes \ {links_pointer(l)} : mem'[x] = mem[x]
           /\ \A a \in Range(Iterate(mem, l)) :
                /\ a \in HostAddrs
                /\ linked(mem', Member(a))
                /\ a \notin Range(Iterate(mem', l))
           /\ Iterate(mem', l) = <<>> ]_vars

\* clear() was called on the list of Marry and Bob: the two still are
\* linked to each other and to the sentinel, and the list iterates as
\* nothing.
C15_Witness ==
  /\ status = "ok"
  /\ last.op = "clear"
  /\ Iterate(mem, last.list) = <<>>
  /\ linked(mem, Member(Marry)) /\ linked(mem, Member(Bob))
  /\ previous(mem, Member(Marry)) = links_pointer(last.list)
  /\ next(mem, Member(Marry)) = Member(Bob)
  /\ next(mem, Member(Bob)) = links_pointer(last.list)

\* C16: with asserts compiled in, link_tail(node) and link_head(node) on an
\* initialized list with a node that is a member of a list fail an assert
\* and write no pointer.
C16_LinkOfLinkedAsserts ==
  [][ \A l \in Lists, a \in HostAddrs :
        ( /\ ~ndebug
          /\ last'.op \in LinkOps
          /\ last'.list = l /\ last'.arg = a
          /\ ~double_list_uninitialized(mem, l)
          /\ ~Unlinked(mem, Member(a)) )
        => /\ status' = "assert"
           /\ mem' = mem ]_vars

C18_EmptyUnlinkNop ==
  [][ \A l \in Lists :
        ( /\ intrusive
          /\ last'.op \in {"unlink_head", "unlink_tail"}
          /\ last'.list = l
          /\ ~double_list_uninitialized(mem, l) /\ empty(mem, l) )
        => /\ status' = "ok"
           /\ mem' = mem
           /\ next(mem', links_pointer(l)) = links_pointer(l)
           /\ previous(mem', links_pointer(l)) = links_pointer(l)
           /\ empty(mem', l) ]_vars

\* unlink_tail() was called on an empty list while another list has a
\* member: the list is still empty, the member still in its list.
C18_Witness ==
  /\ status = "ok" /\ intrusive
  /\ last.op = "unlink_tail"
  /\ empty(mem, last.list)
  /\ next(mem, links_pointer(last.list)) = links_pointer(last.list)
  /\ \E k \in Lists \ {last.list} : Iterate(mem, k) = <<Marry>>

\* C19: with asserts compiled in, link_tail(), link_head() and begin() on a
\* list of static links that is still uninitialized fail the assert
\* (!links_.uninitialized ()) and write no pointer.
C19_UninitializedUseAsserts ==
  [][ \A l \in Lists :
        ( /\ ~ndebug
          /\ is_statically_allocated(l)
          /\ double_list_uninitialized(mem, l)
          /\ last'.list = l
          /\ last'.op \in LinkOps \cup {"begin"} )
        => /\ status' = "assert"
           /\ mem' = mem ]_vars

\* C20: initialize() on a node in any state (uninitialized, unlinked,
\* linked) ends normally and sets its previous and next to the node itself,
\* after which the node is neither uninitialized nor linked; no other node
\* is written.
C20_InitializeAnyState ==
  [][ \A a \in HostAddrs :
        (last'.op = "initialize" /\ last'.arg = a) =>
          /\ status' = "ok"
          /\ previous(mem', Member(a)) = Member(a)
          /\ next(mem', Member(a)) = Member(a)
          /\ ~uninitialized(mem', Member(a))
          /\ ~linked(mem', Member(a))
          /\ \A x \in Nodes \ {Member(a)} : mem'[x] = mem[x] ]_vars

\* initialize() was called on the links of a host that was in a list: the
\* sentinel still points to it.
C20_Witness ==
  /\ status = "ok"
  /\ last.op = "initialize"
  /\ ~linked(mem, Member(last.arg))
  /\ \E l \in Lists : head(mem, l) = Member(last.arg)

\* The node of a call to initialize_once(): the sentinel of the list, or
\* the links member of the host.
OnceNode(c) ==
  IF c.op = "initialize_once" THEN links_pointer(c.list) ELSE Member(c.arg)

\* C21: initialize_once() on a node or a list with both pointers null
\* leaves it pointing to itself; on a node or a list in any other state
\* (initialized and unlinked, linked, a list with members) it changes no
\* pointer, so every list iterates as before; a second initialize_once()
\* changes nothing.
C21_InitializeOnceIdempotent ==
  [][ last'.op \in {"initialize_once", "links_initialize_once"} =>
        LET n == OnceNode(last')
            lazy == last'.op = "initialize_once"
                      => is_statically_allocated(last'.list)
        IN  /\ status' = "ok"
            /\ (lazy /\ mem[n] = Zero) =>
                 /\ mem' = initialize(mem, n)
                 /\ next(mem', n) = n /\ previous(mem', n) = n
            /\ ~(lazy /\ mem[n] = Zero) =>
                 /\ mem' = mem
                 /\ \A l \in Lists : Iterate(mem', l) = Iterate(mem, l)
            /\ initialize_once(mem', n) = Ok(mem')
            /\ last'.op = "initialize_once" =>
                 double_list_initialize_once(mem', last'.list) = Ok(mem') ]_vars

\* initialize_once() was called on the static list while it had two
\* members, which it still has.
C21_Witness ==
  /\ status = "ok"
  /\ last.op = "initialize_once"
  /\ is_statically_allocated(last.list)
  /\ Iterate(mem, last.list) = <<Marry, Bob>>

\* C22: nullify() leaves both pointers of a static node null and the node
\* uninitialized, whatever they were, and writes no other node; so does
\* initialize() followed by nullify().
C22_NullifyUninitializes ==
  /\ [][ last'.op = "nullify" =>
           LET n == Member(last'.arg)
           IN  /\ status' = "ok"
               /\ mem'[n] = Zero
               /\ uninitialized(mem', n)
               /\ \A x \in Nodes \ {n} : mem'[x] = mem[x] ]_vars
  /\ [](\A n \in Elems :
          LET m2 == nullify(initialize(mem, n), n)
          IN  /\ m2[n] = Zero
              /\ uninitialized(m2, n)
              /\ uninitialized_asserts(m2, n))

\* nullify() was called on static links that pointed to themselves, as
\* initialize() leaves them: they are uninitialized again.
C22_Witness ==
  /\ status = "ok" /\ elemStatic
  /\ last.op = "nullify"
  /\ last.before = [previous |-> Member(last.arg), next |-> Member(last.arg)]
  /\ uninitialized(mem, Member(last.arg))

\* C23: a list with links of type double_list_links reports uninitialized()
\* false and has no null pointer in its sentinel in every state, and so
\* have the links of the elements when they are of that type: such a list
\* is empty, or it is not and the iteration yields a member.
C23_EagerNeverUninitialized ==
  /\ \A l \in Lists :
       ~is_statically_allocated(l) =>
         /\ ~double_list_uninitialized(mem, l)
         /\ ~uninitialized(mem, links_pointer(l))
         /\ mem[links_pointer(l)] # Zero
         /\ Circular(mem) => (empty(mem, l) <=> Iterate(mem, l) = <<>>)
  /\ ~elemStatic => \A n \in Elems : ~uninitialized(mem, n)

\* The list of double_list_links has been through link, unlink and clear
\* and is empty and initialized; the elements are of double_list_links too.
C23_Witness ==
  /\ status = "ok" /\ ~elemStatic
  /\ last.op = "clear" /\ ~is_statically_allocated(last.list)
  /\ empty(mem, last.list)
  /\ ~uninitialized(mem, links_pointer(last.list))
  /\ \E a \in HostAddrs : linked(mem, Member(a))

\* C24 as stated: with asserts compiled in, the destructor of a node for
\* which linked() is true fails an assert.
C24_DestroyLinkedAsserts ==
  [][ (last'.op = "destroy" /\ last'.wasLinked /\ ~ndebug)
        => status' = "assert" ]_vars

\* C24 amended: the destructors of both links types check nothing and
\* write nothing.  The destructor of a node ends normally in every build,
\* whether linked() is true or not, and changes no pointer; when the node
\* was in a list, its neighbours go on pointing to it.
C24_DestroyChecksNothing ==
  [][ last'.op = "destroy" =>
        LET n == Member(last'.arg)
        IN  /\ status' = "ok"
            /\ mem' = mem
            /\ (last'.wasLinked /\ ~uninitialized(mem, n)) =>
                 /\ linked(mem', n)
                 /\ next(mem', previous(mem', n)) = n
                 /\ previous(mem', next(mem', n)) = n ]_vars

\* The links of Bob were destroyed, with asserts compiled in, while Bob was
\* between Marry and Sally, which still point to Bob.
C24_Witness ==
  /\ status = "ok" /\ ~ndebug
  /\ last.op = "destroy" /\ last.arg = Bob /\ last.wasLinked
  /\ next(mem, Member(Marry)) = Member(Bob)
  /\ previous(mem, Member(Sally)) = Member(Bob)

\* C26: in every state of a client that keeps to the obligations, every
\* initialized node x, sentinels included, is the previous of its next and
\* the next of its previous, and following next() from the sentinel of an
\* initialized list comes back to that sentinel through elements only.
C26_Circularity ==
  status = "ok" =>
    /\ \A x \in Nodes :
         ~uninitialized(mem, x) =>
           /\ previous(mem, next(mem, x)) = x
           /\ next(mem, previous(mem, x)) = x
    /\ \A l \in Lists :
         ~double_list_uninitialized(mem, l) =>
           LET w == Walk(mem, head(mem, l), end(l), Cardinality(Nodes))
           IN  /\ NULL \notin Range(w)
               /\ Range(w) \subseteq Elems

\* Both lists have members: Marry in one, Sally and Bob in the other.
C26_Witness ==
  /\ status = "ok"
  /\ \E l, k \in Lists :
       /\ Iterate(mem, l) = <<Marry>>
       /\ Iterate(mem, k) = <<Sally, Bob>>
  /\ Circular(mem)

\* C27: in every state of a client that keeps to the obligations the
\* asserts inside linked() and uninitialized() pass for every node: next
\* is the node itself exactly when previous is, and next is null exactly
\* when previous is.
C27_AssertsNeverFail ==
  \A x \in Nodes :
    /\ linked_asserts(mem, x)
    /\ uninitialized_asserts(mem, x)
    /\ (next(mem, x) = x) <=> (previous(mem, x) = x)
    /\ (next(mem, x) = NULL) <=> (previous(mem, x) = NULL)

\* Static links in their three states: Marry's in a list, Bob's pointing
\* to themselves, Sally's still null.
C27_Witness ==
  /\ status = "ok" /\ elemStatic
  /\ linked(mem, Member(Marry)) /\ ~uninitialized(mem, Member(Marry))
  /\ next(mem, Member(Bob)) = Member(Bob)
  /\ mem[Member(Sally)] = Zero

\* C28: self.link_next(node), with self initialized, node in no list and
\* S the next of self, ends normally with node.previous = self,
\* node.next = S, S.previous = node and self.next = node; no other pointer
\* of any node is changed.
C28_LinkNextEffect ==
  status = "ok" =>
    \A self \in Nodes, node \in Elems :
      (~uninitialized(mem, self) /\ Unlinked(mem, node) /\ node # self) =>
        LET S == next(mem, self)
            r == link_next(mem, self, node)
        IN  /\ r.status = "ok"
            /\ r.mem[node] = [previous |-> self, next |-> S]
            /\ r.mem[S].previous = node
            /\ r.mem[self].next = node
            /\ S # self =>
                 /\ r.mem[self].previous = mem[self].previous
                 /\ r.mem[S].next = mem[S].next
            /\ \A x \in Nodes \ {node, self, S} : r.mem[x] = mem[x]

\* link_tail, which is link_next on the tail, put Bob after Marry and
\* before the sentinel.
C28_Witness ==
  /\ status = "ok"
  /\ last.op = "link_tail" /\ last.arg = Bob
  /\ mem[Member(Bob)] =
       [previous |-> Member(Marry), next |-> links_pointer(last.list)]
  /\ next(mem, Member(Marry)) = Member(Bob)
  /\ previous(mem, links_pointer(last.list)) = Member(Bob)

\* C29: self.link_previous(node), with self initialized, node in no list
\* and P the previous of self, ends normally with node.next = self,
\* node.previous = P, P.next = node and self.previous = node; no other
\* pointer of any node is changed.
C29_LinkPreviousEffect ==
  status = "ok" =>
    \A self \in Nodes, node \in Elems :
      (~uninitialized(mem, self) /\ Unlinked(mem, node) /\ node # self) =>
        LET P == previous(mem, self)
            r == link_previous(mem, self, node)
        IN  /\ r.status = "ok"
            /\ r.mem[node] = [previous |-> P, next |-> self]
            /\ r.mem[P].next = node
            /\ r.mem[self].previous = node
            /\ P # self =>
                 /\ r.mem[self].next = mem[self].next
                 /\ r.mem[P].previous = mem[P].previous
            /\ \A x \in Nodes \ {node, self, P} : r.mem[x] = mem[x]

\* link_head, which is link_previous on the head, put Bob before Marry and
\* after the sentinel.
C29_Witness ==
  /\ status = "ok"
  /\ last.op = "link_head" /\ last.arg = Bob
  /\ mem[Member(Bob)] =
       [previous |-> links_pointer(last.list), next |-> Member(Marry)]
  /\ previous(mem, Member(Marry)) = Member(Bob)
  /\ next(mem, links_pointer(last.list)) = Member(Bob)

\* C30: unlink() of node n writes the two pointers of n, the next of the
\* predecessor of n and the previous of its successor, and nothing else:
\* every other pointer is as before, and so are the sentinel and the
\* iteration of every list that n is not in.
C30_UnlinkFrame ==
  [][ (last'.op = "unlink" /\ status' = "ok") =>
        LET n == Member(last'.arg)
            pred == previous(mem, n)
            succ == next(mem, n)
        IN  /\ \A x \in Nodes \ {n, pred, succ} : mem'[x] = mem[x]
            /\ pred \notin {n, succ} =>
                 previous(mem', pred) = previous(mem, pred)
            /\ succ \notin {n, pred} =>
                 next(mem', succ) = next(mem, succ)
            /\ \A l \in Lists :
                 ( /\ ~double_list_uninitialized(mem, l)
                   /\ last'.arg \notin Range(Iterate(mem, l)) )
                 => /\ mem'[links_pointer(l)] = mem[links_pointer(l)]
                    /\ Iterate(mem', l) = Iterate(mem, l) ]_vars

\* Bob was unlinked from the head of list 1, before Marry, while list 2
\* held Sally, which it still holds.
C30_Witness ==
  /\ status = "ok"
  /\ last.op = "unlink" /\ last.arg = Bob
  /\ last.before = [previous |-> links_pointer(1), next |-> Member(Marry)]
  /\ Iterate(mem, 1) = <<Marry>>
  /\ Iterate(mem, 2) = <<Sally>>

\* The hosts list 1 must hold when the calls the threads have completed
\* were made on a list holding Sally.
Expected ==
  ({Sally} \ { threads[t].host : t \in { u \in Threads :
                   threads[u].op = "unlink" /\ Done(threads[u]) } })
  \cup { threads[t].host : t \in { u \in Threads :
            threads[u].op = "link_tail" /\ Done(threads[u]) } }

\* List 1 is consistent and holds the hosts of Expected, each once.
Intact ==
  /\ Circular(mem)
  /\ Range(Iterate(mem, 1)) = Expected
  /\ Len(Iterate(mem, 1)) = Cardinality(Expected)

\* C25: when every call runs under the lock, whatever the order of the
\* calls of the two threads (link_tail and link_tail, or link_tail and
\* unlink, on the same list), each time no thread is inside a call every
\* node is the previous of its next and the next of its previous and the
\* list holds exactly the hosts it must.  (Without the lock some
\* interleaving of the statements ends otherwise: C25_Witness.)
C25_AtomicKeepsInvariant ==
  (mutex /\ \A t \in Threads : ~Inside(threads[t])) =>
    /\ status = "ok"
    /\ Intact

\* Without the lock both threads have completed link_tail on the same list
\* and a node is lost or the pointers are inconsistent.
C25_Witness ==
  /\ ~mutex
  /\ status = "ok"
  /\ \A t \in Threads : threads[t].op = "link_tail" /\ Done(threads[t])
  /\ ~Intact

\* The nodes a loop from begin() to end() of list l visits, in order.
Visited(m, l) == Walk(m, head(m, l), end(l), Cardinality(DOMAIN m))

\* The lists that have left the uninitialized state.
InitializedLists == { l \in Lists : ~double_list_uninitialized(mem, l) }

\* The links nodes of the hosts that are in some list.
LinkedNodes == { Member(a) : a \in HostAddrs \ UnlinkedHosts }

\* C31: iteration terminates and is exact.  On every initialized list the
\* loop from begin() with ++ reaches end(), which is the address of the
\* sentinel, after visiting only links of elements (never a sentinel), each
\* once; every linked node is visited by the loop of exactly one list, so
\* the number of increments is the number of members.
C31_IterationExact ==
  status = "ok" =>
    /\ \A l \in InitializedLists :
         LET w == Visited(mem, l)
         IN  /\ end(l) = links_pointer(l)
             /\ Range(w) \subseteq Elems
             /\ \A i, j \in 1 .. Len(w) : i # j => w[i] # w[j]
             /\ Len(w) = Cardinality(Range(w) \cap LinkedNodes)
    /\ UNION { Range(Visited(mem, l)) : l \in InitializedLists } = LinkedNodes
    /\ \A l1, l2 \in InitializedLists :
         l1 # l2 => Range(Visited(mem, l1)) \cap Range(Visited(mem, l2)) = {}

\* A loop over list 1 visits the links of Sally, Marry and Bob, in that
\* order, and the list 2 is initialized and visits none.
C31_Witness ==
  /\ status = "ok"
  /\ InitializedLists = Lists
  /\ Visited(mem, 1) = <<Member(Sally), Member(Marry), Member(Bob)>>
  /\ Visited(mem, 2) = <<>>

\* s in the opposite order.
Reverse(s) == [i \in 1 .. Len(s) |-> s[Len(s) + 1 - i]]

\* The nodes a loop that starts at end() of list l and applies -- visits,
\* up to its return to end().
VisitedBack(m, l) ==
  WalkBack(m, decrement(m, end(l)), end(l), Cardinality(DOMAIN m))

\* C32: backward traversal mirrors forward traversal (intrusive list, the
\* iterator whose -- follows previous()).  From end() of an initialized
\* list, N applications of -- visit the members in the reverse of the
\* order of the loop from begin(), and one more arrives at the sentinel;
\* for an iterator on any initialized node, ++ followed by -- returns to
\* the same node.
C32_BackwardMirrors ==
  (status = "ok" /\ intrusive) =>
    /\ \A l \in InitializedLists :
         /\ VisitedBack(mem, l) = Reverse(Visited(mem, l))
         /\ NULL \notin Range(VisitedBack(mem, l))
    /\ \A n \in Nodes :
         ~uninitialized(mem, n) => decrement(mem, increment(mem, n)) = n

\* The intrusive list 1 is visited forwards as Bob, Sally, Marry and
\* backwards as Marry, Sally, Bob.
C32_Witness ==
  /\ status = "ok" /\ intrusive
  /\ Visited(mem, 1) = <<Member(Bob), Member(Sally), Member(Marry)>>
  /\ VisitedBack(mem, 1) = <<Member(Marry), Member(Sally), Member(Bob)>>

\* C33: head() and tail() return the next and the previous of the sentinel.
\* On an initialized list that is not empty they are the first and the
\* last member (the links of elements that have the sentinel before and
\* after them, first and last of the loop from begin()); on an initialized
\* empty list both are the address of the sentinel.
C33_HeadTail ==
  status = "ok" =>
    \A l \in InitializedLists :
      LET w == Visited(mem, l)
      IN  /\ head(mem, l) = mem[links_pointer(l)].next
          /\ tail(mem, l) = mem[links_pointer(l)].previous
          /\ ~empty(mem, l) =>
               /\ w # <<>>
               /\ head(mem, l) \in LinkedNodes
               /\ tail(mem, l) \in LinkedNodes
               /\ head(mem, l) = w[1]
               /\ tail(mem, l) = w[Len(w)]
               /\ previous(mem, head(mem, l)) = links_pointer(l)
               /\ next(mem, tail(mem, l)) = links_pointer(l)
          /\ empty(mem, l) =>
               /\ w = <<>>
               /\ head(mem, l) = links_pointer(l)
               /\ tail(mem, l) = links_pointer(l)

\* List 1 holds Marry then Bob, and list 2 is initialized and empty.
C33_Witness ==
  /\ status = "ok"
  /\ InitializedLists = Lists
  /\ head(mem, 1) = Member(Marry) /\ tail(mem, 1) = Member(Bob)
  /\ Member(Marry) # Member(Bob)
  /\ empty(mem, 2) /\ head(mem, 2) = links_pointer(2)

\* C34: unlink() of static links that were never initialized (both
\* pointers null), with the asserts compiled in, fails an assertion and
\* changes no node.
C34_NullUnlinkAsserts ==
  [][ ( /\ status = "ok"
        /\ ~ndebug
        /\ last'.op = "unlink"
        /\ uninitialized(mem, Member(last'.arg)) )
      => (status' = "assert" /\ mem' = mem) ]_vars

\* C35: in every state reached by calls that keep the obligations, on an
\* initialized list empty() and begin() == end() agree, and both hold
\* exactly when no node is linked into the list: the sentinel has itself as
\* next and as previous, and neither direction from it reaches an element.
\* No list has a member exactly when no element is linked.
C35_EmptyIffBeginIsEnd ==
  status = "ok" =>
    /\ \A l \in InitializedLists :
         LET self == links_pointer(l)
             noMember == mem[self] = [previous |-> self, next |-> self]
         IN  /\ begin(mem, l).status = "ok"
             /\ empty(mem, l) <=> (head(mem, l) = end(l))
             /\ empty(mem, l) <=> noMember
             /\ noMember <=> (Visited(mem, l) = <<>>)
             /\ noMember <=> (WalkBack(mem, tail(mem, l), end(l),
                                       Cardinality(DOMAIN mem)) = <<>>)
    /\ (InitializedLists # {}) =>
         ((\A l \in InitializedLists : empty(mem, l)) <=> LinkedNodes = {})

\* The only member of list 1 has just been unlinked: list 1 is empty again
\* with begin() equal to end(), while list 2 has a member.
C35_Witness ==
  /\ status = "ok"
  /\ last.op = "unlink" /\ last.wasLinked
  /\ last.before = [previous |-> links_pointer(1), next |-> links_pointer(1)]
  /\ InitializedLists = Lists
  /\ empty(mem, 1) /\ head(mem, 1) = end(1)
  /\ ~empty(mem, 2) /\ head(mem, 2) # end(2)

\* The initialized lists whose loop from begin() visits node n.
ListsHolding(n) ==
  { l \in InitializedLists : \E i \in 1 .. Len(Visited(mem, l)) :
                                Visited(mem, l)[i] = n }

\* C36: membership is exclusive and matches linked().  After any sequence
\* of calls that keep the obligations, on the two lists and the shared
\* elements, the links of each element are reached from at most one
\* sentinel, and initialized links of an element have linked() true exactly
\* when some sentinel reaches them.
C36_MembershipExclusive ==
  status = "ok" =>
    \A n \in Elems :
      /\ Cardinality(ListsHolding(n)) <= 1
      /\ ~uninitialized(mem, n) => (linked(mem, n) <=> ListsHolding(n) # {})
      /\ uninitialized(mem, n) => ListsHolding(n) = {}

\* Marry is in list 1 only, Bob in list 2 only, and Sally, whose links are
\* initialized, in none.
C36_Witness ==
  /\ status = "ok"
  /\ ListsHolding(Member(Marry)) = {1}
  /\ ListsHolding(Member(Bob)) = {2}
  /\ ~uninitialized(mem, Member(Sally))
  /\ ~linked(mem, Member(Sally))
  /\ ListsHolding(Member(Sally)) = {}

\* The call op (link_tail or link_head) of host a on list l, in memory m.
LinkBy(op, m, l, a) ==
  IF op = "link_tail" THEN link_tail(m, l, a) ELSE link_head(m, l, a)

\* C37: links of an element need not be initialized before they are
\* linked.  For every initialized list and every element in no list,
\* link_tail and link_head of the element with both pointers null (static
\* links never initialized) end as they do with the links initialized:
\* both return normally with the same pointers in every node; unlink() of
\* the element then leaves its links pointing to themselves and every
\* other node as it was before the link.
C37_LinkNeedsNoInitialize ==
  (status = "ok" /\ elemStatic) =>
    \A l \in InitializedLists, a \in UnlinkedHosts, op \in LinkOps :
      LET n == Member(a)
          asNull == LinkBy(op, nullify(mem, n), l, a)
          asSelf == LinkBy(op, initialize(mem, n), l, a)
          after == unlink(asNull.mem, n)
      IN  /\ asNull.status = "ok"
          /\ asSelf.status = "ok"
          /\ asNull.mem = asSelf.mem
          /\ after.status = "ok"
          /\ after.mem[n] = [previous |-> n, next |-> n]
          /\ after.mem = initialize(mem, n)

\* Bob, an element with static links, was linked at the tail of list 1
\* after Marry and has just been unlinked: his links point to themselves,
\* while those of Sally have never been initialized.
C37_Witness ==
  /\ status = "ok" /\ elemStatic
  /\ last.op = "unlink" /\ last.arg = Bob /\ last.wasLinked
  /\ last.before = [previous |-> Member(Marry), next |-> links_pointer(1)]
  /\ mem[Member(Bob)] = [previous |-> Member(Bob), next |-> Member(Bob)]
  /\ uninitialized(mem, Member(Sally))
  /\ Visited(mem, 1) = <<Member(Marry)>>

\* After unlink() of a former member the sentinel of list l points to itself
\* on one side only: the assert of linked() fails in the next empty(), and
\* without the asserts empty() is true while begin() differs from end() or
\* a step back from end() lands on a former member.
Broken(m, l, former) ==
  /\ ~linked_asserts(m, links_pointer(l))
  /\ empty(m, l)
  /\ head(m, l) # end(l) \/ decrement(m, end(l)) \in former

\* C38 as stated: after clear() on a list with two or more members,
\* unlink() of any one former member leaves the sentinel with exactly one
\* of next and previous pointing to itself and the other to a former
\* member, so that the assert of linked() fails in the next empty().
C38_AnyFormerMemberBreaks ==
  [][ (AfterClear /\ last'.op = "unlink" /\ status' = "ok") =>
        LET l == last.list
            self == links_pointer(l)
            chain == FormerMembers(mem, l)
        IN  Len(chain) >= 2 =>
              /\ (mem'[self].next = self) # (mem'[self].previous = self)
              /\ {mem'[self].next, mem'[self].previous} \ {self}
                   \subseteq Range(chain)
              /\ Broken(mem', l, Range(chain)) ]_vars

\* C38: after clear() on a list with members, unlink() of a former member
\* resets that member and
\*  - with one former member, leaves the sentinel pointing to itself;
\*  - with two or more, when the member was the head, leaves the sentinel
\*    with previous itself and next the second former member, and when it
\*    was the tail, with next itself and previous the one before the last:
\*    the assert of linked() then fails in the next empty(), and without
\*    asserts empty() is true while begin() differs from end() or a step
\*    back from end() lands on a former member;
\*  - with three or more, when the member was neither head nor tail, writes
\*    into its two neighbours only: the sentinel keeps pointing to itself,
\*    empty() is true with its asserts passing and begin() equals end().
C38_UnlinkAfterClear ==
  [][ (AfterClear /\ last'.op = "unlink" /\ status' = "ok") =>
        LET l == last.list
            self == links_pointer(l)
            chain == FormerMembers(mem, l)
            k == Len(chain)
            n == Member(last'.arg)
        IN  /\ n \in Range(chain)
            /\ mem'[n] = [previous |-> n, next |-> n]
            /\ k = 1 => mem'[self] = [previous |-> self, next |-> self]
            /\ (k >= 2 /\ n = chain[1]) =>
                 /\ mem'[self] = [previous |-> self, next |-> chain[2]]
                 /\ Broken(mem', l, Range(chain))
            /\ (k >= 2 /\ n = chain[k]) =>
                 /\ mem'[self] = [previous |-> chain[k - 1], next |-> self]
                 /\ Broken(mem', l, Range(chain))
            /\ (k >= 3 /\ n \notin {chain[1], chain[k]}) =>
                 /\ mem'[self] = [previous |-> self, next |-> self]
                 /\ \A x \in Nodes \ {n, previous(mem, n), next(mem, n)} :
                      mem'[x] = mem[x]
                 /\ linked_asserts(mem', self)
                 /\ empty(mem', l)
                 /\ head(mem', l) = end(l) ]_vars

\* List 1 was cleared while it held Marry and Bob, and Marry, the former
\* head, was then unlinked: the sentinel has itself as previous and Bob as
\* next.
C38_Witness ==
  /\ status = "ok"
  /\ last.op = "unlink" /\ last.arg = Marry
  /\ last.before = [previous |-> links_pointer(1), next |-> Member(Bob)]
  /\ mem[links_pointer(1)] =
       [previous |-> links_pointer(1), next |-> Member(Bob)]
  /\ mem[Member(Bob)] =
       [previous |-> links_pointer(1), next |-> links_pointer(1)]
  /\ Broken(mem, 1, {Member(Bob)})

\* C39: the uninitialized state is not entered again.  A list of static
\* links that initialize_once() or clear() has taken out of the
\* uninitialized state stays out of it in every step, whatever the call
\* (link_head, link_tail, unlink, unlink_head, unlink_tail, clear,
\* initialize_once, within the obligations or not) and however it ends;
\* nullify() on the links of the list is what would make uninitialized()
\* true again.
C39_UninitializedNotReentered ==
  [][ \A l \in Lists :
        /\ ( /\ is_statically_allocated(l)
             /\ double_list_uninitialized(mem, l)
             /\ last'.op \in {"initialize_once", "clear"}
             /\ last'.list = l )
           => ~double_list_uninitialized(mem', l)
        /\ ~double_list_uninitialized(mem, l) =>
             /\ ~double_list_uninitialized(mem', l)
             /\ is_statically_allocated(l) =>
                  double_list_uninitialized(nullify(mem', links_pointer(l)), l)
    ]_vars

\* The list of static links, initialized and then given Marry, has had her
\* taken out by unlink_head: it is empty and not uninitialized.
C39_Witness ==
  /\ status = "ok"
  /\ last.op = "unlink_head" /\ last.list = 2 /\ last.ret = Marry
  /\ is_statically_allocated(2)
  /\ ~double_list_uninitialized(mem, 2)
  /\ empty(mem, 2)


====
